---- MODULE Spec2Model ----
(***************************************************************************)
(* Model of the client-side session redirect guard GlobalVerificationCheck *)
(* (src/components/auth/GlobalVerificationCheck.tsx), in its two revisions *)
(* (the unlatched one, lines 1-64, and the latched one, lines 66-152),     *)
(* together with the collaborators it talks to: the session provider       *)
(* (useUser), the Next.js router (router.replace, usePathname), the        *)
(* browser location (window.location.search / .href) and the timer queue   *)
(* (setTimeout).                                                           *)
(*                                                                         *)
(* Strings are sequences of one-character strings, so that startsWith,     *)
(* encodeURIComponent and URLSearchParams are computed character by        *)
(* character as the browser computes them.                                 *)
(***************************************************************************)
EXTENDS Integers, Sequences, FiniteSets, TLC

\* ------------------------------------------------------------------ bounds

\* events the environment starts in one behaviour: session changes, link
\* clicks and unmounts of the guard
MaxEnv == 2

\* session changes and clicks on a page in one behaviour of a page
MaxPageEvents == 1

\* edits (updates and deletions of products) in one behaviour of the admin page
MaxEdits == 2

\* session changes and clicks in one behaviour of the orders page
MaxOrdersEvents == 2

\* ----------------------------------------------------------------- strings

\* the absent value of an optional (JS null / undefined) and a present one
Null == <<>>
Some(v) == <<v>>

\* lower case of the letters the path inputs have in upper case
ToLowerChar(c) ==
  CASE c = "A" -> "a"
    [] c = "D" -> "d"
    [] c = "V" -> "v"
    [] OTHER -> c

ToLower(s) == [i \in DOMAIN s |-> ToLowerChar(s[i])]

\* StartsWith comparing without regard to case
StartsWithIgnoreCase(s, prefix) ==
  /\ Len(prefix) <= Len(s)
  /\ ToLower(SubSeq(s, 1, Len(prefix))) = ToLower(prefix)

\* String.prototype.startsWith
StartsWith(s, prefix) ==
  /\ Len(prefix) <= Len(s)
  /\ SubSeq(s, 1, Len(prefix)) = prefix

\* index of the first occurrence of character c in s, 0 when there is none
RECURSIVE IndexFrom(_, _, _)
IndexFrom(s, c, i) ==
  IF i > Len(s) THEN 0
  ELSE IF s[i] = c THEN i
  ELSE IndexFrom(s, c, i + 1)

IndexOf(s, c) == IndexFrom(s, c, 1)

\* the percent-escape of one character under encodeURIComponent: the
\* unreserved characters (letters, digits, - _ . ! ~ * ' ( )) are kept, every
\* other character becomes %XX
EncodeChar(c) ==
  CASE c = "/" -> <<"%", "2", "F">>
    [] c = "@" -> <<"%", "4", "0">>
    [] c = "?" -> <<"%", "3", "F">>
    [] c = "=" -> <<"%", "3", "D">>
    [] c = "&" -> <<"%", "2", "6">>
    [] c = "%" -> <<"%", "2", "5">>
    [] OTHER -> <<c>>

RECURSIVE encodeURIComponent(_)
encodeURIComponent(s) ==
  IF s = <<>> THEN <<>>
  ELSE EncodeChar(Head(s)) \o encodeURIComponent(Tail(s))

\* the character a two-digit escape stands for; <<>> when the model's
\* alphabet has no such character
DecodeHex(h, l) ==
  CASE h = "2" /\ l = "F" -> <<"/">>
    [] h = "4" /\ l = "0" -> <<"@">>
    [] h = "3" /\ l = "F" -> <<"?">>
    [] h = "3" /\ l = "D" -> <<"=">>
    [] h = "2" /\ l = "6" -> <<"&">>
    [] h = "2" /\ l = "5" -> <<"%">>
    [] OTHER -> <<>>

\* percent-decoding as URLSearchParams applies it to names and values: a
\* valid escape is replaced by its character, anything else is kept
RECURSIVE PercentDecode(_)
PercentDecode(s) ==
  IF s = <<>> THEN <<>>
  ELSE IF /\ Head(s) = "%"
          /\ Len(s) >= 3
          /\ DecodeHex(s[2], s[3]) # <<>>
       THEN DecodeHex(s[2], s[3]) \o PercentDecode(SubSeq(s, 4, Len(s)))
       ELSE <<Head(s)>> \o PercentDecode(Tail(s))

\* the pathname of a relative URL: what precedes the first "?"
PathOf(url) ==
  IF IndexOf(url, "?") = 0 THEN url
  ELSE SubSeq(url, 1, IndexOf(url, "?") - 1)

\* the search string of a relative URL: from the first "?" on, "" when the
\* URL has none or nothing follows it
SearchOf(url) ==
  IF IndexOf(url, "?") = 0 \/ IndexOf(url, "?") = Len(url) THEN <<>>
  ELSE SubSeq(url, IndexOf(url, "?"), Len(url))

\* URLSearchParams.get over a query string without its leading "?": the
\* decoded value of the first name=value pair whose decoded name is key
RECURSIVE QueryGet(_, _)
QueryGet(q, key) ==
  IF q = <<>> THEN Null
  ELSE LET amp  == IndexOf(q, "&")
           pair == IF amp = 0 THEN q ELSE SubSeq(q, 1, amp - 1)
           rest == IF amp = 0 THEN <<>> ELSE SubSeq(q, amp + 1, Len(q))
           eq   == IndexOf(pair, "=")
           name == IF eq = 0 THEN pair ELSE SubSeq(pair, 1, eq - 1)
           val  == IF eq = 0 THEN <<>> ELSE SubSeq(pair, eq + 1, Len(pair))
       IN IF pair # <<>> /\ PercentDecode(name) = key
          THEN Some(PercentDecode(val))
          ELSE QueryGet(rest, key)

\* new URLSearchParams(window.location.search).get(key)
SearchParamGet(search, key) ==
  IF search # <<>> /\ Head(search) = "?"
  THEN QueryGet(Tail(search), key)
  ELSE QueryGet(search, key)

\* JS truthiness of an optional string: present and not empty
Truthy(opt) == opt # Null /\ opt[1] # <<>>

\* ----------------------------------------------------------- configuration

RootPath == <<"/">>
ShopPath == <<"/", "s", "h", "o", "p">>
FooPath == <<"/", "f", "o", "o">>
CartPath == <<"/", "c", "a", "r", "t">>
CheckoutPath == <<"/", "c", "h", "e", "c", "k", "o", "u", "t">>
OrdersPath == <<"/", "o", "r", "d", "e", "r", "s">>
ProfilePath == <<"/", "p", "r", "o", "f", "i", "l", "e">>
DashboardPath == <<"/", "d", "a", "s", "h", "b", "o", "a", "r", "d">>
AdminLandingPath == DashboardPath \o <<"/", "a", "d", "m", "i", "n">>
AuthPrefix == <<"/", "a", "u", "t", "h", "/">>
LoginPath == AuthPrefix \o <<"l", "o", "g", "i", "n">>
RegisterPath == AuthPrefix \o <<"r", "e", "g", "i", "s", "t", "e", "r">>
ForgotPasswordPath ==
  AuthPrefix \o <<"f", "o", "r", "g", "o", "t", "-", "p", "a", "s", "s", "w", "o", "r", "d">>
ResetPasswordPath ==
  AuthPrefix \o <<"r", "e", "s", "e", "t", "-", "p", "a", "s", "s", "w", "o", "r", "d">>
VerifyPrefix == AuthPrefix \o <<"v", "e", "r", "i", "f", "y">>
VerifyEmailPath == VerifyPrefix \o <<"-", "e", "m", "a", "i", "l">>
VerifySuccessPath == VerifyPrefix \o <<"-", "s", "u", "c", "c", "e", "s", "s">>
RedirectKey == <<"r", "e", "d", "i", "r", "e", "c", "t">>
RedirectQuery == <<"?">> \o RedirectKey \o <<"=">>
EmailQuery == <<"?", "e", "m", "a", "i", "l", "=">>

\* VERIFICATION_REQUIRED_PATHS with the list of the unlatched revision
VERIFICATION_REQUIRED_PATHS_Unlatched ==
  {CartPath, CheckoutPath, OrdersPath, ProfilePath, DashboardPath}

\* VERIFICATION_REQUIRED_PATHS of the latched revision
VERIFICATION_REQUIRED_PATHS == {DashboardPath}

\* AUTH_PAGES of the latched revision
AUTH_PAGES == {LoginPath, RegisterPath, ForgotPasswordPath, ResetPasswordPath}

\* VERIFICATION_REQUIRED_PATHS of the unlatched revision
UNLATCHED_REQUIRED_PATHS ==
  {CartPath, CheckoutPath, OrdersPath, ProfilePath, DashboardPath}

\* the auth pages the unlatched revision tests in line
UNLATCHED_AUTH_PAGES == {LoginPath, RegisterPath, ForgotPasswordPath}

\* ------------------------------------------------------------------ policy

\* isOnAuthPage testing for the login page alone
isOnAuthPageLoginOnly(p) == StartsWith(p, LoginPath)

\* AUTH_PAGES.some(authPath => pathname.startsWith(authPath))
isOnAuthPage(p) == \E authPath \in AUTH_PAGES : StartsWith(p, authPath)

\* isProtectedPath with the root path in the list, so every path is protected
isProtectedPathRoot(p) == StartsWith(p, RootPath)

\* VERIFICATION_REQUIRED_PATHS.some(path => pathname.startsWith(path))
isProtectedPath(p) == \E path \in VERIFICATION_REQUIRED_PATHS : StartsWith(p, path)

\* IsVerificationPath testing for the verification page instead of the prefix
IsVerificationPathEmailOnly(p) ==
  StartsWith(p, VerifyPrefix \o <<"-", "e", "m", "a", "i", "l">>)

\* pathname.startsWith("/auth/verify")
IsVerificationPath(p) == StartsWith(p, VerifyPrefix)

\* VerifyUrl with the address interpolated as it is
VerifyUrlUnencoded(email) == VerifyEmailPath \o EmailQuery \o email

\* `/auth/verify-email?email=${encodeURIComponent(user.email)}`
VerifyUrl(email) == VerifyEmailPath \o EmailQuery \o encodeURIComponent(email)

\* `/auth/login?redirect=${encodeURIComponent(currentPath)}`
LoginUrl(currentPath) == LoginPath \o RedirectQuery \o encodeURIComponent(currentPath)

\* what one run of the effect decides
NoAction == [kind |-> "none", url |-> <<>>, redirectTo |-> Null]
Replace(url) == [kind |-> "replace", url |-> url, redirectTo |-> Null]
Schedule(redirectTo) == [kind |-> "timeout", url |-> <<>>, redirectTo |-> redirectTo]

\* Blocked as the unlatched revision has it: neither the ref nor the state is
\* consulted
BlockedLoadingOnly(l, h, r) == l

\* Blocked with the loading test left out
BlockedIgnoringLoading(l, h, r) == h \/ r

\* the early return of the latched effect
Blocked(l, h, r) == l \/ h \/ r

\* DecideAuthPageFirst: Decide with the auth-page rule ahead of the
\* verification rule and not asking for a verified address
DecideAuthPageFirst(u, p, s) ==
  IF u.present /\ isOnAuthPage(p)
  THEN Schedule(SearchParamGet(s, RedirectKey))
  ELSE IF u.present /\ ~u.isVerified
  THEN IF ~IsVerificationPath(p) THEN Replace(VerifyUrl(u.email)) ELSE NoAction
  ELSE IF ~u.present /\ isProtectedPath(p)
  THEN Replace(LoginUrl(p))
  ELSE NoAction

\* the body of the latched effect after its early return
Decide(u, p, s) ==
  IF u.present /\ ~u.isVerified
  THEN IF ~IsVerificationPath(p) THEN Replace(VerifyUrl(u.email)) ELSE NoAction
  ELSE IF u.present /\ u.isVerified /\ isOnAuthPage(p)
  THEN Schedule(SearchParamGet(s, RedirectKey))
  ELSE IF ~u.present /\ isProtectedPath(p)
  THEN Replace(LoginUrl(p))
  ELSE NoAction

\* EgressDestination with the role test ahead of the redirect parameter
EgressDestinationRoleFirst(redirectTo, p, role) ==
  IF role = "admin" THEN AdminLandingPath
  ELSE IF Truthy(redirectTo) /\ redirectTo[1] # p THEN redirectTo[1]
  ELSE RootPath

\* EgressDestination without the role test
EgressDestinationNoRole(redirectTo, p, role) ==
  IF Truthy(redirectTo) /\ redirectTo[1] # p THEN redirectTo[1]
  ELSE RootPath

\* the destination the setTimeout callback assigns to window.location.href,
\* from the values its closure captured
EgressDestination(redirectTo, p, role) ==
  IF Truthy(redirectTo) /\ redirectTo[1] # p THEN redirectTo[1]
  ELSE IF role = "admin" THEN AdminLandingPath
  ELSE RootPath

\* process.env.NEXT_PUBLIC_POST_AUTH_REDIRECT_URL || "/"
PostAuthRedirectUrl(env) == IF Truthy(env) THEN env[1] ELSE RootPath

\* the body of the unlatched effect after its early return on loading
DecideUnlatched(u, p, env) ==
  IF u.present /\ ~u.isVerified
  THEN IF ~IsVerificationPath(p) THEN Replace(VerifyUrl(u.email)) ELSE NoAction
  ELSE IF /\ u.present
          /\ u.isVerified
          /\ \E authPath \in UNLATCHED_AUTH_PAGES : StartsWith(p, authPath)
  THEN Replace(PostAuthRedirectUrl(env))
  ELSE IF ~u.present /\ \E path \in UNLATCHED_REQUIRED_PATHS : StartsWith(p, path)
  THEN Replace(LoginPath)
  ELSE NoAction

\* ------------------------------------------------------------------- state

VARIABLES
  postAuthEnv,    \* process.env.NEXT_PUBLIC_POST_AUTH_REDIRECT_URL
  user,           \* useUser().user
  loading,        \* useUser().loading
  pathname,       \* usePathname()
  search,         \* window.location.search
  mounted,        \* a guard instance is mounted
  inst,           \* the number of the instance mounted last
  hasRedirected,  \* hasRedirected.current of the mounted instance
  isRedirecting,  \* the isRedirecting state of the mounted instance
  dirty,          \* a dependency changed since the effect last ran
  timers,         \* the pending setTimeout callbacks with their closures,
                  \* in the order they were scheduled
  pendingNav,     \* the router.replace the router has not yet applied
  navs,           \* every navigation issued so far, oldest first
  lastEval,       \* the effect run that has just finished, if any
  lastFire,       \* the timer callback that has just finished, if any
  envSteps,       \* session changes, user navigations and clicks so far
  \* the admin page, src/app/dashboard/admin/page.tsx
  activeTab,      \* the activeTab state
  query,          \* the page state fetchProducts sends (limit, search and
                  \* categoryFilter are carried along with it)
  products,       \* the products state
  pagination,     \* the pagination state
  dataLoading,    \* the page's own loading state
  error,          \* the error state
  saving,         \* the saving state
  deleting,       \* the ids whose deleting[id] is true
  flavors,        \* the flavors state
  effectsDue,     \* the page's effects that are due to run
  calls,          \* the async function calls that have started and not
                  \* yet returned
  issuedCalls,    \* the number of async calls started so far
  pageNavs,       \* the navigations the pages have issued, oldest first
  pageTimers,     \* the navigations the pages have set a timer for
  lastDone,       \* the async call that has just returned, if any
  latestFetch,    \* the fetchProducts call issued last, and its result once
                  \* it has returned
  \* the orders page, src/app/(root)/orders/page.tsx
  status,         \* the status state
  page,           \* the page state
  ordersFetches   \* the fetchOrders calls so far, with their arguments

guardVars ==
  <<postAuthEnv, user, loading, pathname, search, mounted, inst,
    hasRedirected, isRedirecting, dirty, timers, pendingNav, navs, lastEval,
    lastFire, envSteps>>

adminVars ==
  <<activeTab, query, products, pagination, dataLoading, error, saving,
    deleting, flavors, effectsDue, calls, issuedCalls, pageNavs, pageTimers,
    lastDone, latestFetch>>

ordersVars == <<status, page, ordersFetches>>

pageVars == <<adminVars, ordersVars>>

vars == <<guardVars, pageVars>>

EmailA == <<"a", "@", "b", ".", "c", "o", "m">>
EmailX == <<"x", "@", "y", ".", "i", "o">>

Absent == [present |-> FALSE, email |-> <<>>, isVerified |-> FALSE, role |-> "none"]
User(email, isVerified, role) ==
  [present |-> TRUE, email |-> email, isVerified |-> isVerified, role |-> role]

\* the sessions the provider can deliver
Users ==
  { Absent,
    User(EmailA, FALSE, "customer"),
    User(EmailX, FALSE, "admin"),
    User(EmailA, TRUE, "customer"),
    User(EmailX, TRUE, "admin") }

\* the URLs a visitor opens or follows a link to
Locations ==
  { RootPath,
    DashboardPath,
    AdminLandingPath,
    LoginPath,
    LoginPath \o RedirectQuery \o encodeURIComponent(FooPath),
    LoginPath \o RedirectQuery \o encodeURIComponent(LoginPath),
    LoginPath \o RedirectQuery,
    RegisterPath \o RedirectQuery \o encodeURIComponent(LoginPath),
    VerifySuccessPath }

\* the values of the environment variable: unset, or a path
PostAuthEnvs == {Null, Some(ShopPath)}

NoEval ==
  [ran |-> FALSE, inst |-> 0, loading |-> FALSE, user |-> Absent,
   pathname |-> <<>>, search |-> <<>>, latched |-> FALSE, redirecting |-> FALSE,
   issuedBefore |-> 0, action |-> NoAction, latchedAfter |-> FALSE,
   redirectingAfter |-> FALSE]

\* what a setTimeout callback holds: the instance that scheduled it and the
\* redirectTo, pathname and user its closure captured, with the search string
\* redirectTo was read from
Closure(i, redirectTo, p, u, s) ==
  [inst |-> i, redirectTo |-> redirectTo, pathname |-> p, user |-> u, search |-> s]

NoTimer == Closure(0, Null, <<>>, Absent, <<>>)

NoFire == [ran |-> FALSE, timer |-> NoTimer, dest |-> <<>>]

\* ------------------------------------------------------- the pages' state

\* the guard's variables its own actions alone read or write
guardOnly ==
  <<postAuthEnv, search, mounted, inst, hasRedirected, isRedirecting, dirty,
    timers, navs, lastEval, lastFire>>

Tabs == {"products", "flavors", "inventory", "config"}

\* the values of the page state of the products table
Queries == {1, 2}

\* a product row: its id and which version of its fields it shows
Product(id, data) == [id |-> id, data |-> data]

\* what the server returns for GET /products/admin/all?page=q
ServerPage(q) ==
  IF q = 1 THEN {Product(1, "server"), Product(2, "server")}
  ELSE {Product(3, "server")}

\* what the server returns for GET /admin/flavors and for the legacy
\* GET /3pack/admin/flavors
ServerFlavors == {"f1", "f2"}
LegacyFlavors == {"f1"}

\* the messages setError is called with
AuthRequiredMessage == "Authentication required. Please log in to access this resource."
ServerMessage == "message of the response"
FlavorsFailedMessage == "Failed to load flavors. Please try again."
ProductsFailedMessage == "Unable to load products. Please try again."
UpdateFailedMessage == "Failed to update product"
DeleteFailedMessage == "Unable to delete product. Please try again."
MissingIdMessage == "Missing product id"

\* the awaits of fetchData for each tab, in order
Chain(tab) ==
  CASE tab = "products" ->
         <<"fetchProducts", "fetchProductCategories", "fetchAvailableFlavors">>
    [] tab = "flavors" -> <<"fetchFlavors">>
    [] tab = "inventory" -> <<"fetchInventoryAlerts">>
    [] tab = "config" -> <<"fetchSystemConfig">>

\* an async call that has started: which function, the request it waits on
\* (for fetchData: the position in its chain), the fetchData call awaiting it
\* (0: none), what its closure captured (tab, page, product id, products), and
\* whether, at the moment it started, the session had finished loading with
\* an admin
NewCall(id, fn, pc, parent, tab, q, arg, prev) ==
  [id |-> id, fn |-> fn, pc |-> pc, parent |-> parent, tab |-> tab, q |-> q,
   arg |-> arg, prev |-> prev,
   asAdmin |-> (~loading /\ user.present /\ user.role = "admin")]

NoCall ==
  [id |-> 0, fn |-> "none", pc |-> "none", parent |-> 0, tab |-> "none",
   q |-> 0, arg |-> 0, prev |-> {}, asAdmin |-> FALSE]

\* the record lastDone holds: the call, the response it got, and the products,
\* flavors and timers it found
Done(c, outcome) ==
  [ran |-> TRUE, call |-> c, outcome |-> outcome, products |-> products,
   flavors |-> flavors, timers |-> Len(pageTimers)]

NoDone ==
  [ran |-> FALSE, call |-> NoCall, outcome |-> "none", products |-> {},
   flavors |-> {}, timers |-> 0]

NoFetch == [id |-> 0, done |-> FALSE, products |-> {}, pagination |-> Null]

\* a navigation a page issues: router.replace, router.push, or an assignment
\* to window.location.href
PageNav(kind, url) == [kind |-> kind, url |-> url]

\* no guard is rendered
GuardAbsent ==
  /\ postAuthEnv = Null
  /\ search = <<>>
  /\ mounted = FALSE
  /\ inst = 0
  /\ hasRedirected = FALSE
  /\ isRedirecting = FALSE
  /\ dirty = FALSE
  /\ timers = <<>>
  /\ navs = <<>>
  /\ lastEval = NoEval
  /\ lastFire = NoFire

\* the admin page is not rendered
AdminIdle ==
  /\ activeTab = "products"
  /\ query = 1
  /\ products = {}
  /\ pagination = Null
  /\ dataLoading = FALSE
  /\ error = Null
  /\ saving = FALSE
  /\ deleting = {}
  /\ flavors = {}
  /\ effectsDue = {}
  /\ calls = {}
  /\ issuedCalls = 0
  /\ pageNavs = <<>>
  /\ pageTimers = <<>>
  /\ lastDone = NoDone
  /\ latestFetch = NoFetch

\* the orders page is not rendered
OrdersIdle ==
  /\ status = <<>>
  /\ page = 1
  /\ ordersFetches = <<>>

PagesIdle == AdminIdle /\ OrdersIdle

Init ==
  /\ PagesIdle
  /\ postAuthEnv \in PostAuthEnvs
  /\ user \in Users
  /\ loading \in BOOLEAN
  /\ \E url \in Locations :
       /\ pathname = PathOf(url)
       /\ search = SearchOf(url)
  /\ mounted = TRUE
  /\ inst = 1
  /\ hasRedirected = FALSE
  /\ isRedirecting = FALSE
  /\ dirty = TRUE
  /\ timers = <<>>
  /\ pendingNav = Null
  /\ navs = <<>>
  /\ lastEval = NoEval
  /\ lastFire = NoFire
  /\ envSteps = 0

\* ----------------------------------------------------------------- actions

\* the app shell renders the guard anew: useRef(false), useState(false), and
\* the effect is due
Mount ==
  /\ ~mounted
  /\ mounted' = TRUE
  /\ inst' = inst + 1
  /\ hasRedirected' = FALSE
  /\ isRedirecting' = FALSE
  /\ dirty' = TRUE
  /\ lastEval' = NoEval
  /\ lastFire' = NoFire
  /\ UNCHANGED <<postAuthEnv, user, loading, pathname, search, timers,
                 pendingNav, navs, envSteps>>
  /\ UNCHANGED pageVars

\* React unmounts the guard; the effect returns no cleanup function, so the
\* pending timers and the router's pending navigation stay as they are
Unmount ==
  /\ mounted
  /\ envSteps < MaxEnv
  /\ envSteps' = envSteps + 1
  /\ mounted' = FALSE
  /\ hasRedirected' = FALSE
  /\ isRedirecting' = FALSE
  /\ dirty' = FALSE
  /\ lastEval' = NoEval
  /\ lastFire' = NoFire
  /\ UNCHANGED <<postAuthEnv, user, loading, pathname, search, inst,
                 timers, pendingNav, navs>>
  /\ UNCHANGED pageVars

\* the session provider delivers a new {user, loading}
SessionChange ==
  /\ envSteps < MaxEnv
  /\ \E u \in Users, l \in BOOLEAN :
       /\ <<u, l>> # <<user, loading>>
       /\ user' = u
       /\ loading' = l
  /\ dirty' = (dirty \/ mounted)
  /\ envSteps' = envSteps + 1
  /\ lastEval' = NoEval
  /\ lastFire' = NoFire
  /\ UNCHANGED <<postAuthEnv, pathname, search, mounted, inst,
                 hasRedirected, isRedirecting, timers, pendingNav, navs>>
  /\ UNCHANGED pageVars

\* the visitor follows a link: a client-side navigation, the guard stays
\* mounted; the effect depends on pathname but not on the search string
ClientNavigate ==
  /\ envSteps < MaxEnv
  /\ \E url \in Locations :
       /\ <<PathOf(url), SearchOf(url)>> # <<pathname, search>>
       /\ pathname' = PathOf(url)
       /\ search' = SearchOf(url)
  /\ dirty' = (dirty \/ (mounted /\ pathname' # pathname))
  /\ envSteps' = envSteps + 1
  /\ lastEval' = NoEval
  /\ lastFire' = NoFire
  /\ UNCHANGED <<postAuthEnv, user, loading, mounted, inst,
                 hasRedirected, isRedirecting, timers, pendingNav, navs>>
  /\ UNCHANGED pageVars

\* the router applies the pending router.replace: the location changes, the
\* guard stays mounted
NavigatorApply ==
  /\ pendingNav # Null
  /\ pathname' = PathOf(pendingNav[1])
  /\ search' = SearchOf(pendingNav[1])
  /\ pendingNav' = Null
  /\ dirty' = (dirty \/ (mounted /\ pathname' # pathname))
  /\ lastEval' = NoEval
  /\ lastFire' = NoFire
  /\ UNCHANGED <<postAuthEnv, user, loading, mounted, inst,
                 hasRedirected, isRedirecting, timers, navs, envSteps>>
  /\ UNCHANGED pageVars

\* the navigations instance i has issued and the ones it has scheduled
NavCount(i) == Cardinality({k \in DOMAIN navs : navs[k].inst = i})
Issued(i) == NavCount(i) + Cardinality({k \in DOMAIN timers : timers[k].inst = i})

\* a navigation as navs records it: who issued it, how, where to, whether the
\* issuing instance was still mounted, and whether the call threw
Nav(i, kind, url, live) ==
  [inst |-> i, kind |-> kind, url |-> url, live |-> live, threw |-> FALSE]

\* a router.replace call that threw
ThrownNav(i, url) ==
  [inst |-> i, kind |-> "replace", url |-> url, live |-> TRUE, threw |-> TRUE]

\* whether a navigation of this kind adds an entry to the session history:
\* router.replace replaces the current entry, an assignment to
\* window.location.href loads the destination as a new entry
PushesHistory(kind) == kind = "href"

\* LatchAfter assigning the ref on every run, so a run that decides nothing
\* clears it
LatchAfterReset(h, acts) == acts

\* LatchAfter with the assignment left out
LatchAfterNever(h, acts) == h

\* hasRedirected.current after one run of the effect: the only assignments to
\* the ref are `hasRedirected.current = true` in the three branches that
\* redirect
LatchAfter(h, acts) == h \/ acts

Evaluation(action, latchedAfter, redirectingAfter) ==
  [ran |-> TRUE, inst |-> inst, loading |-> loading, user |-> user,
   pathname |-> pathname, search |-> search, latched |-> hasRedirected,
   redirecting |-> isRedirecting, issuedBefore |-> Issued(inst),
   action |-> action,
   latchedAfter |-> latchedAfter, redirectingAfter |-> redirectingAfter]

\* one run of the latched revision's effect
GuardEffect ==
  /\ mounted
  /\ dirty
  /\ LET action == IF Blocked(loading, hasRedirected, isRedirecting)
                   THEN NoAction
                   ELSE Decide(user, pathname, search)
         acts == action.kind # "none"
     IN /\ hasRedirected' = LatchAfter(hasRedirected, acts)
        /\ isRedirecting' = (isRedirecting \/ acts)
        /\ dirty' = (isRedirecting' # isRedirecting)
        /\ pendingNav' =
             IF action.kind = "replace" THEN Some(action.url) ELSE pendingNav
        /\ navs' =
             IF action.kind = "replace"
             THEN Append(navs, Nav(inst, "replace", action.url, TRUE))
             ELSE navs
        /\ timers' =
             IF action.kind = "timeout"
             THEN Append(timers, Closure(inst, action.redirectTo, pathname, user,
                                         search))
             ELSE timers
        /\ lastFire' = NoFire
        /\ lastEval' = Evaluation(action, hasRedirected', isRedirecting')
  /\ UNCHANGED <<postAuthEnv, user, loading, pathname, search,
                 mounted, inst, envSteps>>
  /\ UNCHANGED pageVars

\* one run of the latched revision's effect in which router.replace throws:
\* the ref and the state were set on the lines before the call, the router
\* takes no navigation, the exception leaves the effect (there is no
\* try/catch); the host's error handling either keeps the guard mounted or
\* takes it down
GuardEffectThrows ==
  /\ mounted
  /\ dirty
  /\ envSteps < MaxEnv
  /\ ~Blocked(loading, hasRedirected, isRedirecting)
  /\ LET action == Decide(user, pathname, search)
     IN /\ action.kind = "replace"
        /\ navs' = Append(navs, ThrownNav(inst, action.url))
  /\ \E survives \in BOOLEAN :
       /\ mounted' = survives
       /\ hasRedirected' = (survives /\ LatchAfter(hasRedirected, TRUE))
       /\ isRedirecting' = survives
       /\ dirty' = survives
  /\ envSteps' = envSteps + 1
  /\ lastEval' = NoEval
  /\ lastFire' = NoFire
  /\ UNCHANGED <<postAuthEnv, user, loading, pathname, search, inst, timers,
                 pendingNav>>
  /\ UNCHANGED pageVars

\* one run of the unlatched revision's effect
GuardEffectUnlatched ==
  /\ mounted
  /\ dirty
  /\ LET action == IF loading
                   THEN NoAction
                   ELSE DecideUnlatched(user, pathname, postAuthEnv)
     IN /\ pendingNav' =
             IF action.kind = "replace" THEN Some(action.url) ELSE pendingNav
        /\ navs' =
             IF action.kind = "replace"
             THEN Append(navs, Nav(inst, "replace", action.url, TRUE))
             ELSE navs
        /\ lastFire' = NoFire
        /\ lastEval' = Evaluation(action, FALSE, FALSE)
  /\ dirty' = FALSE
  /\ UNCHANGED <<postAuthEnv, user, loading, pathname, search,
                 mounted, inst, hasRedirected, isRedirecting, timers, envSteps>>
  /\ UNCHANGED pageVars

\* the mutation of FiredDestination that reads user and pathname when the
\* timer fires
FiredDestinationLive(t) == EgressDestination(t.redirectTo, pathname, user.role)

\* the destination the callback of timer t computes: redirectTo, pathname and
\* user are the values its closure captured
FiredDestination(t) == EgressDestination(t.redirectTo, t.pathname, t.user.role)

\* the oldest setTimeout callback runs (all have the same delay):
\* window.location.href is assigned, the browser loads the destination as a
\* new document, which ends the mounted instance, the other timers and the
\* router's pending navigation
TimerFire ==
  /\ timers # <<>>
  /\ LET t == Head(timers)
         dest == FiredDestination(t)
     IN /\ navs' = Append(navs, Nav(t.inst, "href", dest, mounted /\ inst = t.inst))
        /\ lastFire' = [ran |-> TRUE, timer |-> t, dest |-> dest]
        /\ pathname' = PathOf(dest)
        /\ search' = SearchOf(dest)
  /\ mounted' = FALSE
  /\ hasRedirected' = FALSE
  /\ isRedirecting' = FALSE
  /\ dirty' = FALSE
  /\ timers' = <<>>
  /\ pendingNav' = Null
  /\ lastEval' = NoEval
  /\ UNCHANGED <<postAuthEnv, user, loading, inst, envSteps>>
  /\ UNCHANGED pageVars

\* the latched revision, the one deployed
Next ==
  \/ Mount
  \/ Unmount
  \/ SessionChange
  \/ ClientNavigate
  \/ NavigatorApply
  \/ GuardEffect
  \/ GuardEffectThrows
  \/ TimerFire

Spec == Init /\ [][Next]_vars

\* a deployment that configures no default landing path (the latched revision
\* never reads it)
InitFair == Init /\ postAuthEnv = Null

\* the latched revision with the browser's timer queue: a setTimeout callback
\* that is due does run
SpecFair == InitFair /\ [][Next]_vars /\ WF_vars(TimerFire)

\* paths that differ from a configured prefix by a suffix, by a further
\* segment or by case
DashboardXPath == DashboardPath \o <<"X">>
UpperDashboardPath == <<"/", "D", "a", "s", "h", "b", "o", "a", "r", "d">>
LoginExtraPath == LoginPath \o <<"/", "e", "x", "t", "r", "a">>
UpperAuthLoginPath == <<"/", "A", "u", "t", "h", "/", "l", "o", "g", "i", "n">>
UpperVerifyPath == AuthPrefix \o <<"V", "e", "r", "i", "f", "y">>

\* the paths a visitor opens when matching is examined
PathInputs ==
  { RootPath, CartPath, CheckoutPath, OrdersPath, ProfilePath,
    DashboardPath, AdminLandingPath, DashboardXPath, UpperDashboardPath,
    LoginPath, LoginExtraPath, UpperAuthLoginPath, RegisterPath,
    ForgotPasswordPath, ResetPasswordPath,
    VerifyEmailPath, VerifySuccessPath, UpperVerifyPath }

\* the guard's first render on any of the path inputs, no query string
InitPaths ==
  /\ PagesIdle
  /\ postAuthEnv \in PostAuthEnvs
  /\ user \in Users
  /\ loading \in BOOLEAN
  /\ pathname \in PathInputs
  /\ search = <<>>
  /\ mounted = TRUE
  /\ inst = 1
  /\ hasRedirected = FALSE
  /\ isRedirecting = FALSE
  /\ dirty = TRUE
  /\ timers = <<>>
  /\ pendingNav = Null
  /\ navs = <<>>
  /\ lastEval = NoEval
  /\ lastFire = NoFire
  /\ envSteps = 0

\* the latched revision left to itself on the opened path: the effect runs,
\* the router and the timer do their work, the loaded page mounts the guard
NextPaths ==
  \/ GuardEffect
  \/ NavigatorApply
  \/ TimerFire
  \/ Mount

SpecPaths == InitPaths /\ [][NextPaths]_vars

\* the unlatched revision
NextUnlatched ==
  \/ Mount
  \/ Unmount
  \/ SessionChange
  \/ ClientNavigate
  \/ NavigatorApply
  \/ GuardEffectUnlatched

SpecUnlatched == Init /\ [][NextUnlatched]_vars

\* ---------------------------------------------------------- the admin page

\* the admin page is the page rendered
AdminPageRendered == pathname = AdminLandingPath

\* user && user.role === "admin"
IsAdmin(u) == u.present /\ u.role = "admin"

SimpleFetches ==
  {"fetchProductCategories", "fetchAvailableFlavors", "fetchInventoryAlerts",
   "fetchSystemConfig"}

\* the fetchData call that awaits call c
ParentOf(c) == CHOOSE d \in calls : d.id = c.parent

\* call c returns to a fetchData that has a further await / that has none
StartsNext(c) == c.parent # 0 /\ ParentOf(c).pc < Len(Chain(ParentOf(c).tab))
FetchDataFinishes(c) == c.parent # 0 /\ ParentOf(c).pc = Len(Chain(ParentOf(c).tab))

\* the calls in flight once call c has returned: the fetchData awaiting it, if
\* any, goes on to its next await or returns
Resumed(c) ==
  IF c.parent = 0 THEN calls \ {c}
  ELSE LET fd == ParentOf(c)
       IN IF StartsNext(c)
          THEN (calls \ {c, fd}) \cup
                 { [fd EXCEPT !.pc = @ + 1],
                   NewCall(issuedCalls + 1, Chain(fd.tab)[fd.pc + 1], "primary",
                           fd.id, fd.tab, fd.q, 0, {}) }
          ELSE calls \ {c, fd}

\* useUser delivers a new {user, loading} to the page
PageSessionChange ==
  /\ envSteps < MaxPageEvents
  /\ \E u \in Users, l \in BOOLEAN :
       /\ <<u, l>> # <<user, loading>>
       /\ user' = u
       /\ loading' = l
  /\ envSteps' = envSteps + 1
  /\ effectsDue' = IF AdminPageRendered THEN {"access", "data"} ELSE effectsDue
  /\ lastDone' = NoDone
  /\ UNCHANGED <<pathname, pendingNav, guardOnly, ordersVars, activeTab, query,
                 products, pagination, dataLoading, error, saving, deleting,
                 flavors, calls, issuedCalls, pageNavs, pageTimers, latestFetch>>

\* the access effect: router.replace("/") for anyone but an admin
AccessEffect ==
  /\ AdminPageRendered
  /\ "access" \in effectsDue
  /\ effectsDue' = effectsDue \ {"access"}
  /\ IF ~loading /\ ~IsAdmin(user)
     THEN /\ pageNavs' = Append(pageNavs, PageNav("replace", RootPath))
          /\ pendingNav' = Some(RootPath)
     ELSE UNCHANGED <<pageNavs, pendingNav>>
  /\ lastDone' = NoDone
  /\ UNCHANGED <<user, loading, pathname, envSteps, guardOnly, ordersVars,
                 activeTab, query, products, pagination, dataLoading, error,
                 saving, deleting, flavors, calls, issuedCalls, pageTimers,
                 latestFetch>>

\* the main data fetching effect: fetchData() runs up to its first await, and
\* on the products tab fetchProducts(), fetchProductCategories() and
\* fetchAvailableFlavors() are started beside it. The last two are awaited by
\* no one and fill lists that are not part of the model: they are counted as
\* started (numbers n + 4 and n + 5) and not followed further
DataEffect ==
  /\ AdminPageRendered
  /\ "data" \in effectsDue
  /\ effectsDue' = effectsDue \ {"data"}
  /\ IF ~loading /\ IsAdmin(user)
     THEN LET n == issuedCalls
              fd == NewCall(n + 1, "fetchData", 1, 0, activeTab, query, 0, {})
              first == NewCall(n + 2, Chain(activeTab)[1], "primary", n + 1,
                               activeTab, query, 0, {})
              own == IF activeTab = "products"
                     THEN { NewCall(n + 3, "fetchProducts", "primary", 0,
                                    activeTab, query, 0, {}) }
                     ELSE {}
          IN /\ calls' = calls \cup {fd, first} \cup own
             /\ issuedCalls' = IF activeTab = "products" THEN n + 5 ELSE n + 2
             /\ dataLoading' = TRUE
             /\ error' = Null
             /\ latestFetch' =
                  IF activeTab = "products"
                  THEN [NoFetch EXCEPT !.id = n + 3]
                  ELSE latestFetch
     ELSE UNCHANGED <<calls, issuedCalls, dataLoading, error, latestFetch>>
  /\ lastDone' = NoDone
  /\ UNCHANGED <<user, loading, pathname, pendingNav, envSteps, guardOnly,
                 ordersVars, activeTab, query, products, pagination, saving,
                 deleting, flavors, pageNavs, pageTimers>>

\* a click on another tab
SetActiveTab ==
  /\ AdminPageRendered
  /\ envSteps < MaxPageEvents
  /\ envSteps' = envSteps + 1
  /\ \E tab \in Tabs \ {activeTab} : activeTab' = tab
  /\ effectsDue' = effectsDue \cup {"data"}
  /\ lastDone' = NoDone
  /\ UNCHANGED <<user, loading, pathname, pendingNav, guardOnly, ordersVars,
                 query, products, pagination, dataLoading, error, saving,
                 deleting, flavors, calls, issuedCalls, pageNavs, pageTimers,
                 latestFetch>>

\* a click on a pagination button of the products table: setPage, which gives
\* fetchProducts, fetchData and the data effect new identities
SetQuery ==
  /\ AdminPageRendered
  /\ activeTab = "products"
  /\ envSteps < MaxPageEvents
  /\ envSteps' = envSteps + 1
  /\ \E q \in Queries \ {query} : query' = q
  /\ effectsDue' = effectsDue \cup {"data"}
  /\ lastDone' = NoDone
  /\ UNCHANGED <<user, loading, pathname, pendingNav, guardOnly, ordersVars,
                 activeTab, products, pagination, dataLoading, error, saving,
                 deleting, flavors, calls, issuedCalls, pageNavs, pageTimers,
                 latestFetch>>

\* a response to a request of fetchProducts: 404 from the primary mount
\* starts the request to the alternate mount; anything else ends the call,
\* with setLoading(false) in its finally
ProductsResponse ==
  \E c \in calls :
    /\ c.fn = "fetchProducts"
    /\ \E outcome \in (IF c.pc = "primary" THEN {"ok", "404", "error"}
                       ELSE {"ok", "error"}) :
         IF outcome = "404"
         THEN /\ calls' = (calls \ {c}) \cup {[c EXCEPT !.pc = "legacy"]}
              /\ lastDone' = NoDone
              /\ UNCHANGED <<products, pagination, error, dataLoading,
                             issuedCalls, latestFetch>>
         ELSE /\ products' = IF outcome = "ok" THEN ServerPage(c.q) ELSE {}
              /\ pagination' = IF outcome = "ok" THEN Some(c.q) ELSE Null
              /\ error' = IF outcome = "error" THEN Some(ProductsFailedMessage)
                          ELSE IF c.pc = "legacy" THEN Null
                          ELSE error
              /\ dataLoading' = FALSE
              /\ calls' = Resumed(c)
              /\ issuedCalls' = issuedCalls + (IF StartsNext(c) THEN 1 ELSE 0)
              /\ latestFetch' =
                   IF c.id = latestFetch.id
                   THEN [id |-> c.id, done |-> TRUE, products |-> products',
                         pagination |-> pagination']
                   ELSE latestFetch
              /\ lastDone' = Done(c, outcome)
    /\ UNCHANGED <<user, loading, pathname, pendingNav, envSteps, guardOnly,
                   ordersVars, activeTab, query, saving, deleting, flavors,
                   effectsDue, pageNavs, pageTimers>>

\* the responses the flavors endpoints can give
FlavorsOutcomes(pc) ==
  IF pc = "primary"
  THEN {"ok", "malformed", "401 NO_TOKEN message", "401 NO_TOKEN", "401", "404",
        "error"}
  ELSE {"ok", "malformed", "error message", "error"}

\* the mutation of IsAuthFailure that knows no authentication failure
IsAuthFailureNever(outcome) == outcome \in {}

\* err.response?.status === 401 && errorData?.code === "NO_TOKEN"
IsAuthFailure(outcome) == outcome \in {"401 NO_TOKEN message", "401 NO_TOKEN"}

\* the primary request failed and the legacy endpoint is tried
FallsBackToLegacy(pc, outcome) ==
  /\ pc = "primary"
  /\ outcome \notin {"ok", "malformed"}
  /\ ~IsAuthFailure(outcome)

\* a response to a request of fetchFlavors
FlavorsResponse ==
  \E c \in calls :
    /\ c.fn = "fetchFlavors"
    /\ \E outcome \in FlavorsOutcomes(c.pc) :
         IF FallsBackToLegacy(c.pc, outcome)
         THEN /\ calls' = (calls \ {c}) \cup {[c EXCEPT !.pc = "legacy"]}
              /\ lastDone' = Done(c, outcome)
              /\ UNCHANGED <<flavors, error, dataLoading, issuedCalls, pageTimers>>
         ELSE /\ flavors' =
                   IF outcome = "ok"
                   THEN (IF c.pc = "primary" THEN ServerFlavors ELSE LegacyFlavors)
                   ELSE IF IsAuthFailure(outcome) THEN flavors
                   ELSE {}
              /\ error' =
                   CASE IsAuthFailure(outcome) ->
                          Some(IF outcome = "401 NO_TOKEN message"
                               THEN ServerMessage ELSE AuthRequiredMessage)
                     [] outcome = "error message" -> Some(ServerMessage)
                     [] outcome = "error" -> Some(FlavorsFailedMessage)
                     [] OTHER -> error
              /\ pageTimers' =
                   IF IsAuthFailure(outcome)
                   THEN Append(pageTimers, PageNav("href", LoginPath))
                   ELSE pageTimers
              /\ calls' = Resumed(c)
              /\ issuedCalls' = issuedCalls + (IF StartsNext(c) THEN 1 ELSE 0)
              /\ dataLoading' = IF FetchDataFinishes(c) THEN FALSE ELSE dataLoading
              /\ lastDone' = Done(c, outcome)
    /\ UNCHANGED <<user, loading, pathname, pendingNav, envSteps, guardOnly,
                   ordersVars, activeTab, query, products, pagination, saving,
                   deleting, effectsDue, pageNavs, latestFetch>>

\* fetchProductCategories, fetchAvailableFlavors, fetchInventoryAlerts or
\* fetchSystemConfig returns. The lists they fill are not part of the model;
\* of their outcomes only 401 NO_TOKEN (inventory alerts, system config)
\* touches state that is: setError and the timer to the login page
SimpleResponse ==
  \E c \in calls :
    /\ c.fn \in SimpleFetches
    /\ \E outcome \in (IF c.fn \in {"fetchInventoryAlerts", "fetchSystemConfig"}
                       THEN {"returns", "401 NO_TOKEN"}
                       ELSE {"returns"}) :
         /\ error' = IF outcome = "401 NO_TOKEN" THEN Some(AuthRequiredMessage)
                     ELSE error
         /\ pageTimers' = IF outcome = "401 NO_TOKEN"
                          THEN Append(pageTimers, PageNav("href", LoginPath))
                          ELSE pageTimers
         /\ lastDone' = Done(c, outcome)
    /\ calls' = Resumed(c)
    /\ issuedCalls' = issuedCalls + (IF StartsNext(c) THEN 1 ELSE 0)
    /\ dataLoading' = IF FetchDataFinishes(c) THEN FALSE ELSE dataLoading
    /\ UNCHANGED <<user, loading, pathname, pendingNav, envSteps, guardOnly,
                   ordersVars, activeTab, query, products, pagination, saving,
                   deleting, flavors, effectsDue, pageNavs, latestFetch>>

\* the oldest timer of the page runs: window.location.href is assigned, the
\* browser loads the login page, which ends the admin page, its timers, its
\* requests and the router's pending navigation
PageTimerFire ==
  /\ pageTimers # <<>>
  /\ pageNavs' = Append(pageNavs, Head(pageTimers))
  /\ pathname' = PathOf(Head(pageTimers).url)
  /\ pageTimers' = <<>>
  /\ calls' = {}
  /\ effectsDue' = {}
  /\ pendingNav' = Null
  /\ lastDone' = NoDone
  /\ UNCHANGED <<user, loading, envSteps, guardOnly, ordersVars, activeTab,
                 query, products, pagination, dataLoading, error, saving,
                 deleting, flavors, issuedCalls, latestFetch>>

\* the admin page opened on its own: first render, both effects due
InitAdminData ==
  /\ GuardAbsent
  /\ OrdersIdle
  /\ user \in Users
  /\ loading \in BOOLEAN
  /\ pathname = AdminLandingPath
  /\ pendingNav = Null
  /\ envSteps = 0
  /\ activeTab = "products"
  /\ query = 1
  /\ products = {}
  /\ pagination = Null
  /\ dataLoading = FALSE
  /\ error = Null
  /\ saving = FALSE
  /\ deleting = {}
  /\ flavors = {}
  /\ effectsDue = {"access", "data"}
  /\ calls = {}
  /\ issuedCalls = 0
  /\ pageNavs = <<>>
  /\ pageTimers = <<>>
  /\ lastDone = NoDone
  /\ latestFetch = NoFetch

\* the admin page loading its data
NextAdminData ==
  \/ PageSessionChange
  \/ AccessEffect
  \/ DataEffect
  \/ SetActiveTab
  \/ SetQuery
  \/ ProductsResponse
  \/ FlavorsResponse
  \/ SimpleResponse
  \/ PageTimerFire

SpecAdminData == InitAdminData /\ [][NextAdminData]_vars

\* the admin page showing its flavors tab, the flavors of an earlier load (if
\* any) in its state, its effects due
InitAdminFlavors ==
  /\ GuardAbsent
  /\ OrdersIdle
  /\ user \in Users
  /\ loading \in BOOLEAN
  /\ pathname = AdminLandingPath
  /\ pendingNav = Null
  /\ envSteps = 0
  /\ activeTab = "flavors"
  /\ query = 1
  /\ products = {}
  /\ pagination = Null
  /\ dataLoading = FALSE
  /\ error = Null
  /\ saving = FALSE
  /\ deleting = {}
  /\ flavors \in {{}, LegacyFlavors, ServerFlavors}
  /\ effectsDue = {"access", "data"}
  /\ calls = {}
  /\ issuedCalls = 0
  /\ pageNavs = <<>>
  /\ pageTimers = <<>>
  /\ lastDone = NoDone
  /\ latestFetch = NoFetch

\* the admin page loading its flavors
NextAdminFlavors ==
  \/ PageSessionChange
  \/ AccessEffect
  \/ DataEffect
  \/ FlavorsResponse
  \/ PageTimerFire

SpecAdminFlavors == InitAdminFlavors /\ [][NextAdminFlavors]_vars

\* the products with the row of this id replaced by its version data
WithRow(list, id, data) ==
  { IF p.id = id THEN Product(p.id, data) ELSE p : p \in list }

\* a click on Activate/Deactivate or on Save changes: updateProductByRow runs
\* up to its first await. A row without id ends it at once
UpdateClick ==
  /\ AdminPageRendered
  /\ envSteps < MaxEdits
  /\ envSteps' = envSteps + 1
  /\ \E row \in products :
       IF row.id = 0
       THEN /\ error' = Some(MissingIdMessage)
            /\ saving' = FALSE
            /\ UNCHANGED <<products, calls, issuedCalls>>
       ELSE /\ saving' = TRUE
            /\ error' = Null
            /\ products' = WithRow(products, row.id, "edited")
            /\ calls' = calls \cup
                 { NewCall(issuedCalls + 1, "updateProductByRow", "primary", 0,
                           activeTab, query, row.id, products) }
            /\ issuedCalls' = issuedCalls + 1
  /\ lastDone' = NoDone
  /\ UNCHANGED <<user, loading, pathname, pendingNav, guardOnly, ordersVars,
                 activeTab, query, pagination, dataLoading, deleting, flavors,
                 effectsDue, pageNavs, pageTimers, latestFetch>>

\* the responses the PUT and DELETE requests can get
EditOutcomes(pc) == IF pc = "primary" THEN {"ok", "404", "error"} ELSE {"ok", "error"}

\* a response to a request of updateProductByRow: 404 from the primary route
\* starts the request to the legacy mount; a success merges the saved row; a
\* primary failure other than 404 puts back the list the closure captured; a
\* failure of the legacy mount goes to the outer catch as it is
UpdateResponse ==
  \E c \in calls :
    /\ c.fn = "updateProductByRow"
    /\ \E outcome \in EditOutcomes(c.pc) :
         /\ lastDone' = Done(c, outcome)
         /\ IF outcome = "404"
            THEN /\ calls' = (calls \ {c}) \cup {[c EXCEPT !.pc = "legacy"]}
                 /\ UNCHANGED <<products, error, saving>>
            ELSE /\ calls' = calls \ {c}
                 /\ saving' = FALSE
                 /\ products' =
                      IF outcome = "ok" THEN WithRow(products, c.arg, "saved")
                      ELSE IF c.pc = "primary" THEN c.prev
                      ELSE products
                 /\ error' = IF outcome = "ok" THEN error
                             ELSE Some(UpdateFailedMessage)
    /\ UNCHANGED <<user, loading, pathname, pendingNav, envSteps, guardOnly,
                   ordersVars, activeTab, query, pagination, dataLoading,
                   deleting, flavors, effectsDue, issuedCalls, pageNavs,
                   pageTimers, latestFetch>>

\* a click on the Delete button of a row, which is disabled while
\* deleting[pid]: deleteProduct runs up to its first await
DeleteClick ==
  /\ AdminPageRendered
  /\ envSteps < MaxEdits
  /\ envSteps' = envSteps + 1
  /\ \E row \in products :
       /\ row.id \notin deleting
       /\ deleting' = deleting \cup {row.id}
       /\ calls' = calls \cup
            { NewCall(issuedCalls + 1, "deleteProduct", "primary", 0, activeTab,
                      query, row.id, {}) }
  /\ issuedCalls' = issuedCalls + 1
  /\ error' = Null
  /\ lastDone' = NoDone
  /\ UNCHANGED <<user, loading, pathname, pendingNav, guardOnly, ordersVars,
                 activeTab, query, products, pagination, dataLoading, saving,
                 flavors, effectsDue, pageNavs, pageTimers, latestFetch>>

\* the mutation of DeleteSucceeded that takes the row out whatever the answer
DeleteSucceededOrFailed(outcome) == outcome \in {"ok", "error"}

\* the DELETE request (primary, or legacy after 404) did not throw
DeleteSucceeded(outcome) == outcome = "ok"

\* a response to a request of deleteProduct: 404 from the primary route starts
\* the request to the legacy mount; a success filters the row out; a failure
\* sets the error; the finally clears deleting[id]
DeleteResponse ==
  \E c \in calls :
    /\ c.fn = "deleteProduct"
    /\ \E outcome \in EditOutcomes(c.pc) :
         /\ lastDone' = Done(c, outcome)
         /\ IF outcome = "404"
            THEN /\ calls' = (calls \ {c}) \cup {[c EXCEPT !.pc = "legacy"]}
                 /\ UNCHANGED <<products, error, deleting>>
            ELSE /\ calls' = calls \ {c}
                 /\ deleting' = deleting \ {c.arg}
                 /\ products' = IF DeleteSucceeded(outcome)
                                THEN {p \in products : p.id # c.arg}
                                ELSE products
                 /\ error' = IF outcome = "ok" THEN error
                             ELSE Some(DeleteFailedMessage)
    /\ UNCHANGED <<user, loading, pathname, pendingNav, envSteps, guardOnly,
                   ordersVars, activeTab, query, pagination, dataLoading, saving,
                   flavors, effectsDue, issuedCalls, pageNavs, pageTimers,
                   latestFetch>>

\* the rows the products table shows once loaded: a page of the server's, or
\* a page with a row that lacks its id
LoadedProducts ==
  {ServerPage(q) : q \in Queries} \cup {{Product(0, "server"), Product(1, "server")}}

\* the admin page with its products loaded and no request in flight
InitAdminEdit ==
  /\ GuardAbsent
  /\ OrdersIdle
  /\ user \in {u \in Users : IsAdmin(u)}
  /\ loading = FALSE
  /\ pathname = AdminLandingPath
  /\ pendingNav = Null
  /\ envSteps = 0
  /\ activeTab = "products"
  /\ query = 1
  /\ products \in LoadedProducts
  /\ pagination = Some(1)
  /\ dataLoading = FALSE
  /\ error \in {Null, Some(ProductsFailedMessage)}
  /\ saving = FALSE
  /\ deleting = {}
  /\ flavors = {}
  /\ effectsDue = {}
  /\ calls = {}
  /\ issuedCalls = 0
  /\ pageNavs = <<>>
  /\ pageTimers = <<>>
  /\ lastDone = NoDone
  /\ latestFetch = NoFetch

\* the admin editing and deleting products
NextAdminEdit ==
  \/ UpdateClick
  \/ UpdateResponse
  \/ DeleteClick
  \/ DeleteResponse

SpecAdminEdit == InitAdminEdit /\ [][NextAdminEdit]_vars

\* -------------------------------------------------------- the orders page

\* the orders page is the page rendered
OrdersPageRendered == pathname = OrdersPath

\* two of the values of the status select: "" (All statuses) and "pending"
AllStatuses == <<>>
PendingStatus == <<"p", "e", "n", "d", "i", "n", "g">>
Statuses == {AllStatuses, PendingStatus}

\* the pages the pagination buttons lead to
OrdersPages == {1, 2}

\* the mutation of ShouldFetchOrders that fetches for anyone
ShouldFetchOrdersAlways(u) == u = u

\* if (user)
ShouldFetchOrders(u) == u.present

\* if (!userLoading && !user): the login prompt is rendered in place of the list
LoginPromptShown == ~loading /\ ~user.present

\* status || undefined
StatusArg(s) == IF s = AllStatuses THEN Null ELSE Some(s)

\* useUser delivers a new {user, loading} to the orders page; its effect
\* depends on user
OrdersSessionChange ==
  /\ OrdersPageRendered
  /\ envSteps < MaxOrdersEvents
  /\ envSteps' = envSteps + 1
  /\ \E u \in Users, l \in BOOLEAN :
       /\ <<u, l>> # <<user, loading>>
       /\ user' = u
       /\ loading' = l
       /\ effectsDue' = IF u # user THEN effectsDue \cup {"orders"} ELSE effectsDue
  /\ UNCHANGED <<pathname, pendingNav, guardOnly, ordersVars, activeTab, query,
                 products, pagination, dataLoading, error, saving, deleting,
                 flavors, calls, issuedCalls, pageNavs, pageTimers, lastDone,
                 latestFetch>>

\* the effect of the orders page: fetchOrders for a user, nothing without
OrdersEffect ==
  /\ OrdersPageRendered
  /\ "orders" \in effectsDue
  /\ effectsDue' = effectsDue \ {"orders"}
  /\ ordersFetches' =
       IF ShouldFetchOrders(user)
       THEN Append(ordersFetches,
                   [status |-> StatusArg(status), page |-> page, limit |-> 10,
                    present |-> user.present])
       ELSE ordersFetches
  /\ UNCHANGED <<user, loading, pathname, pendingNav, envSteps, guardOnly,
                 status, page, activeTab, query, products, pagination,
                 dataLoading, error, saving, deleting, flavors, calls,
                 issuedCalls, pageNavs, pageTimers, lastDone, latestFetch>>

\* onChange of the status select: setPage(1); setStatus(value)
StatusChange ==
  /\ OrdersPageRendered
  /\ ~LoginPromptShown
  /\ envSteps < MaxOrdersEvents
  /\ envSteps' = envSteps + 1
  /\ \E s \in Statuses \ {status} : status' = s
  /\ page' = 1
  /\ effectsDue' = effectsDue \cup {"orders"}
  /\ UNCHANGED <<user, loading, pathname, pendingNav, guardOnly, ordersFetches,
                 activeTab, query, products, pagination, dataLoading, error,
                 saving, deleting, flavors, calls, issuedCalls, pageNavs,
                 pageTimers, lastDone, latestFetch>>

\* a click on a pagination button: setPage
SetOrdersPage ==
  /\ OrdersPageRendered
  /\ ~LoginPromptShown
  /\ envSteps < MaxOrdersEvents
  /\ envSteps' = envSteps + 1
  /\ \E n \in OrdersPages \ {page} : page' = n
  /\ effectsDue' = effectsDue \cup {"orders"}
  /\ UNCHANGED <<user, loading, pathname, pendingNav, guardOnly, status,
                 ordersFetches, activeTab, query, products, pagination,
                 dataLoading, error, saving, deleting, flavors, calls,
                 issuedCalls, pageNavs, pageTimers, lastDone, latestFetch>>

\* a click on one of the two buttons of the login prompt: router.push
LoginPromptClick ==
  /\ OrdersPageRendered
  /\ LoginPromptShown
  /\ envSteps < MaxOrdersEvents
  /\ envSteps' = envSteps + 1
  /\ \E url \in {LoginPath, ShopPath} :
       /\ pageNavs' = Append(pageNavs, PageNav("push", url))
       /\ pendingNav' = Some(url)
  /\ UNCHANGED <<user, loading, pathname, guardOnly, ordersVars, activeTab,
                 query, products, pagination, dataLoading, error, saving,
                 deleting, flavors, effectsDue, calls, issuedCalls, pageTimers,
                 lastDone, latestFetch>>

\* the router carries out the navigation a click asked for: the orders page
\* is left
OrdersNavigate ==
  /\ OrdersPageRendered
  /\ pendingNav # Null
  /\ pathname' = PathOf(pendingNav[1])
  /\ pendingNav' = Null
  /\ effectsDue' = {}
  /\ UNCHANGED <<user, loading, envSteps, guardOnly, ordersVars, activeTab,
                 query, products, pagination, dataLoading, error, saving,
                 deleting, flavors, calls, issuedCalls, pageNavs, pageTimers,
                 lastDone, latestFetch>>

\* the orders page opened: first render, its effect due
InitOrders ==
  /\ GuardAbsent
  /\ OrdersIdle
  /\ user \in Users
  /\ loading \in BOOLEAN
  /\ pathname = OrdersPath
  /\ pendingNav = Null
  /\ envSteps = 0
  /\ activeTab = "products"
  /\ query = 1
  /\ products = {}
  /\ pagination = Null
  /\ dataLoading = FALSE
  /\ error = Null
  /\ saving = FALSE
  /\ deleting = {}
  /\ flavors = {}
  /\ effectsDue = {"orders"}
  /\ calls = {}
  /\ issuedCalls = 0
  /\ pageNavs = <<>>
  /\ pageTimers = <<>>
  /\ lastDone = NoDone
  /\ latestFetch = NoFetch

NextOrders ==
  \/ OrdersSessionChange
  \/ OrdersEffect
  \/ StatusChange
  \/ SetOrdersPage
  \/ LoginPromptClick
  \/ OrdersNavigate

SpecOrders == InitOrders /\ [][NextOrders]_vars

\* ----------------------------------- the guard and the admin page together

\* useUser delivers a new {user, loading} to the guard and to the admin page:
\* the effects of both are due
AdminRouteSessionChange ==
  /\ envSteps < MaxPageEvents
  /\ envSteps' = envSteps + 1
  /\ \E u \in Users, l \in BOOLEAN :
       /\ <<u, l>> # <<user, loading>>
       /\ user' = u
       /\ loading' = l
  /\ dirty' = (dirty \/ mounted)
  /\ effectsDue' = IF AdminPageRendered THEN {"access"} ELSE effectsDue
  /\ lastEval' = NoEval
  /\ lastFire' = NoFire
  /\ lastDone' = NoDone
  /\ UNCHANGED <<postAuthEnv, pathname, search, mounted, inst, hasRedirected,
                 isRedirecting, timers, pendingNav, navs, ordersVars, activeTab,
                 query, products, pagination, dataLoading, error, saving,
                 deleting, flavors, calls, issuedCalls, pageNavs, pageTimers,
                 latestFetch>>

\* /dashboard/admin opened: the guard of the layout and the admin page are
\* rendered for the first time, the guard's effect and the page's access
\* effect are due, in no fixed order
InitAdminRoute ==
  /\ OrdersIdle
  /\ postAuthEnv \in PostAuthEnvs
  /\ user \in Users
  /\ loading \in BOOLEAN
  /\ pathname = AdminLandingPath
  /\ search = <<>>
  /\ mounted = TRUE
  /\ inst = 1
  /\ hasRedirected = FALSE
  /\ isRedirecting = FALSE
  /\ dirty = TRUE
  /\ timers = <<>>
  /\ pendingNav = Null
  /\ navs = <<>>
  /\ lastEval = NoEval
  /\ lastFire = NoFire
  /\ envSteps = 0
  /\ activeTab = "products"
  /\ query = 1
  /\ products = {}
  /\ pagination = Null
  /\ dataLoading = FALSE
  /\ error = Null
  /\ saving = FALSE
  /\ deleting = {}
  /\ flavors = {}
  /\ effectsDue = {"access"}
  /\ calls = {}
  /\ issuedCalls = 0
  /\ pageNavs = <<>>
  /\ pageTimers = <<>>
  /\ lastDone = NoDone
  /\ latestFetch = NoFetch

NextAdminRoute ==
  \/ AdminRouteSessionChange
  \/ GuardEffect
  \/ AccessEffect
  \/ NavigatorApply

SpecAdminRoute == InitAdminRoute /\ [][NextAdminRoute]_vars

\* ------------------------------------------------------------------ claims

\* the verification URL the specification gives for each address, written out
ExpectedVerifyUrl(email) ==
  CASE email = EmailA ->
         <<"/", "a", "u", "t", "h", "/", "v", "e", "r", "i", "f", "y", "-", "e",
           "m", "a", "i", "l", "?", "e", "m", "a", "i", "l", "=",
           "a", "%", "4", "0", "b", ".", "c", "o", "m">>
    [] email = EmailX ->
         <<"/", "a", "u", "t", "h", "/", "v", "e", "r", "i", "f", "y", "-", "e",
           "m", "a", "i", "l", "?", "e", "m", "a", "i", "l", "=",
           "x", "%", "4", "0", "y", ".", "i", "o">>
    [] OTHER -> <<>>

\* C1 (at-most-once redirect, latched revision): no guard instance ever has
\* more than one navigation to its name, router.replace and the assignment to
\* window.location.href counted together, and an effect run of an instance
\* that has already issued or scheduled a redirect changes nothing: it decides
\* no action, issues and schedules nothing.
C1_AtMostOneRedirect ==
  /\ \A i \in 1..inst : NavCount(i) <= 1
  /\ (lastEval.ran /\ lastEval.issuedBefore > 0)
       => /\ lastEval.action = NoAction
          /\ Issued(lastEval.inst) = lastEval.issuedBefore

\* C1 witness: an effect run after the instance's router.replace was issued
\* and before the router applied it, on the stale path on which a rule of the
\* policy still matches.
C1_Witness ==
  /\ lastEval.ran
  /\ ~lastEval.loading
  /\ lastEval.issuedBefore = 1
  /\ pendingNav # Null
  /\ lastEval.pathname = DashboardPath
  /\ ~lastEval.user.present

\* C3 (verification containment): an effect run with loading false, a user
\* that is not verified, a path outside the verification prefix and no
\* redirect issued yet by the instance calls router.replace with
\* /auth/verify-email?email=<the user's address, URL-encoded>.
C3_VerificationContainment ==
  ( /\ lastEval.ran
    /\ ~lastEval.loading
    /\ lastEval.user.present
    /\ ~lastEval.user.isVerified
    /\ ~StartsWith(lastEval.pathname, VerifyPrefix)
    /\ lastEval.issuedBefore = 0 )
  => /\ navs # <<>>
     /\ navs[Len(navs)] =
          Nav(lastEval.inst, "replace", ExpectedVerifyUrl(lastEval.user.email), TRUE)
     /\ pendingNav = Some(ExpectedVerifyUrl(lastEval.user.email))

\* C3 witness: the user a@b.com, not verified, has just been redirected from
\* the root path.
C3_Witness ==
  /\ lastEval.ran
  /\ lastEval.user = User(EmailA, FALSE, "customer")
  /\ lastEval.pathname = RootPath
  /\ lastEval.issuedBefore = 0
  /\ lastEval.action.kind = "replace"

\* C4 (verification exemption): an effect run with a user that is not verified
\* on a path under the verification prefix does nothing: it decides no action,
\* issues and schedules no navigation and leaves the latch and isRedirecting
\* as they were.
C4_VerificationExemption ==
  ( /\ lastEval.ran
    /\ lastEval.user.present
    /\ ~lastEval.user.isVerified
    /\ StartsWith(lastEval.pathname, VerifyPrefix) )
  => /\ lastEval.action = NoAction
     /\ Issued(lastEval.inst) = lastEval.issuedBefore
     /\ lastEval.latchedAfter = lastEval.latched
     /\ lastEval.redirectingAfter = lastEval.redirecting

\* C4 witness: an unverified user on /auth/verify-success, loading false and
\* the latch unset, so that only the exemption keeps the guard from acting.
C4_Witness ==
  /\ lastEval.ran
  /\ ~lastEval.loading
  /\ lastEval.user.present
  /\ ~lastEval.user.isVerified
  /\ lastEval.pathname = VerifySuccessPath
  /\ ~lastEval.latched
  /\ ~lastEval.redirecting

\* C5 (no-op while loading): an effect run with loading true issues no
\* navigation, schedules no delayed navigation and does not set the latch,
\* whatever the user, the path and the query parameters are.
C5_NoOpWhileLoading ==
  (lastEval.ran /\ lastEval.loading)
  => /\ lastEval.action = NoAction
     /\ Issued(lastEval.inst) = lastEval.issuedBefore
     /\ lastEval.latchedAfter = lastEval.latched
     /\ lastEval.redirectingAfter = lastEval.redirecting

\* C5 witness: an effect run with loading true and the latch unset, for an
\* unverified user on the root path, where the policy would redirect once the
\* session is resolved.
C5_Witness ==
  /\ lastEval.ran
  /\ lastEval.loading
  /\ ~lastEval.latched
  /\ lastEval.user.present
  /\ ~lastEval.user.isVerified
  /\ lastEval.pathname = RootPath

\* the search string ?redirect=%2Fdashboard and the login URL that carries it
DashboardRedirectSearch ==
  <<"?", "r", "e", "d", "i", "r", "e", "c", "t", "=",
    "%", "2", "F", "d", "a", "s", "h", "b", "o", "a", "r", "d">>
LoginWithDashboardRedirect == LoginPath \o DashboardRedirectSearch

\* the search string ?redirect=%2Ffoo
FooRedirectSearch ==
  <<"?", "r", "e", "d", "i", "r", "e", "c", "t", "=", "%", "2", "F", "f", "o", "o">>

\* the login URL the specification gives for each protected path, written out
ExpectedLoginUrl(p) ==
  CASE p = DashboardPath -> LoginWithDashboardRedirect
    [] p = AdminLandingPath ->
         LoginWithDashboardRedirect \o <<"%", "2", "F", "a", "d", "m", "i", "n">>
    [] OTHER -> <<>>

\* C2 (login round trip): when the instance that sent the anonymous visitor
\* from /dashboard to /auth/login?redirect=%2Fdashboard runs its effect with
\* the session now {isVerified: true, role: customer}, loading false, and the
\* location still /auth/login?redirect=%2Fdashboard, it schedules the egress
\* whose destination is /dashboard.
C2_LoginRoundTrip ==
  ( /\ lastEval.ran
    /\ ~lastEval.loading
    /\ lastEval.user = User(EmailA, TRUE, "customer")
    /\ lastEval.pathname = LoginPath
    /\ lastEval.search = DashboardRedirectSearch
    /\ \E k \in DOMAIN navs :
         navs[k] = Nav(lastEval.inst, "replace", LoginWithDashboardRedirect, TRUE) )
  => \E k \in DOMAIN timers :
       /\ timers[k].inst = lastEval.inst
       /\ EgressDestination(timers[k].redirectTo, timers[k].pathname,
                            timers[k].user.role) = DashboardPath

\* C6 (anonymous protection): an effect run with loading false, no user and a
\* path under the protected prefix /dashboard calls router.replace with
\* /auth/login?redirect=<the path, URL-encoded>.
C6_AnonymousProtection ==
  ( /\ lastEval.ran
    /\ ~lastEval.loading
    /\ ~lastEval.user.present
    /\ StartsWith(lastEval.pathname, DashboardPath) )
  => /\ navs # <<>>
     /\ navs[Len(navs)] =
          Nav(lastEval.inst, "replace", ExpectedLoginUrl(lastEval.pathname), TRUE)

\* the value of the redirect query parameter a timer's closure was decided on
RedirectParamOf(t) == SearchParamGet(t.search, RedirectKey)

\* the timer that has just fired belonged to a verified user on an auth page
FiredEgress ==
  /\ lastFire.ran
  /\ lastFire.timer.user.present
  /\ lastFire.timer.user.isVerified
  /\ \E authPath \in AUTH_PAGES : StartsWith(lastFire.timer.pathname, authPath)

\* C7 as claimed (redirect-parameter precedence): the egress decided for a
\* verified user on an auth page with a redirect query parameter whose value
\* differs from the path navigates to that value, for every role.
C7_RedirectParamPrecedence ==
  ( /\ FiredEgress
    /\ RedirectParamOf(lastFire.timer) # Null
    /\ RedirectParamOf(lastFire.timer)[1] # lastFire.timer.pathname )
  => lastFire.dest = RedirectParamOf(lastFire.timer)[1]

\* C7 as amended: the egress decided for a verified user on an auth page with
\* a redirect query parameter whose value is not empty and differs from the
\* path navigates to that value, for every role.
C7_NonEmptyRedirectParamPrecedence ==
  ( /\ FiredEgress
    /\ RedirectParamOf(lastFire.timer) # Null
    /\ RedirectParamOf(lastFire.timer)[1] # <<>>
    /\ RedirectParamOf(lastFire.timer)[1] # lastFire.timer.pathname )
  => /\ lastFire.dest = RedirectParamOf(lastFire.timer)[1]
     /\ navs[Len(navs)].kind = "href"
     /\ navs[Len(navs)].url = RedirectParamOf(lastFire.timer)[1]

\* C7 witness: the egress of an admin decided on /auth/login?redirect=%2Ffoo
\* has just navigated to /foo.
C7_Witness ==
  /\ FiredEgress
  /\ lastFire.timer.user.role = "admin"
  /\ lastFire.timer.pathname = LoginPath
  /\ lastFire.timer.search = FooRedirectSearch
  /\ pathname = FooPath

\* C8 (admin egress): the egress decided for {isVerified: true, role: admin}
\* on /auth/login with no redirect query parameter navigates to
\* /dashboard/admin.
C8_AdminEgress ==
  ( /\ FiredEgress
    /\ lastFire.timer.user.role = "admin"
    /\ lastFire.timer.pathname = LoginPath
    /\ RedirectParamOf(lastFire.timer) = Null )
  => /\ lastFire.dest = AdminLandingPath
     /\ navs[Len(navs)].kind = "href"
     /\ navs[Len(navs)].url = AdminLandingPath

\* C8 witness: the egress of the admin decided on /auth/login, no query
\* string, has just fired and the location is /dashboard/admin.
C8_Witness ==
  /\ FiredEgress
  /\ lastFire.timer.user = User(EmailX, TRUE, "admin")
  /\ lastFire.timer.pathname = LoginPath
  /\ lastFire.timer.search = <<>>
  /\ pathname = AdminLandingPath

\* C9 (default egress destination): the egress decided for a verified user
\* that is no admin, on an auth page with no usable redirect parameter (none,
\* an empty one, or one equal to the path), navigates to the configured
\* default landing path, and to / only when none is configured.
C9_DefaultEgressDestination ==
  ( /\ FiredEgress
    /\ lastFire.timer.user.role # "admin"
    /\ ~( /\ Truthy(RedirectParamOf(lastFire.timer))
          /\ RedirectParamOf(lastFire.timer)[1] # lastFire.timer.pathname ) )
  => lastFire.dest = (IF Truthy(postAuthEnv) THEN postAuthEnv[1] ELSE RootPath)

\* C10 (cancellation on unmount): no navigation is issued by a guard instance
\* that is no longer mounted.
C10_NoNavigationAfterUnmount == \A k \in DOMAIN navs : navs[k].live

\* C11 (replace semantics): every redirect the guard performs, under each of
\* the three rules, replaces the current history entry: none of its
\* navigations adds an entry to the session history, so going back never
\* returns to the page the guard redirected away from.
C11_ReplaceSemantics == \A k \in DOMAIN navs : ~PushesHistory(navs[k].kind)

\* C12 (unverified-user precedence): an effect run that is not blocked, for a
\* user who is present and not verified, decides by the verification rule on
\* every path, auth pages with a redirect parameter and protected paths
\* included: it either does nothing or replaces to the verification page with
\* that user's address, and schedules no egress.
C12_UnverifiedPrecedence ==
  (/\ lastEval.ran
   /\ ~lastEval.loading
   /\ ~lastEval.latched
   /\ ~lastEval.redirecting
   /\ lastEval.user.present
   /\ ~lastEval.user.isVerified)
  => /\ lastEval.action \in {NoAction, Replace(ExpectedVerifyUrl(lastEval.user.email))}
     /\ lastEval.action.kind = "replace" <=> ~StartsWith(lastEval.pathname, VerifyPrefix)
     /\ timers = <<>> \/ timers[Len(timers)].inst # lastEval.inst

\* an unverified user opens the login page with a redirect parameter and is
\* sent to the verification page
C12_Witness ==
  /\ lastEval.ran
  /\ lastEval.user = User(EmailX, FALSE, "admin")
  /\ lastEval.pathname = LoginPath
  /\ lastEval.search = FooRedirectSearch
  /\ lastEval.action = Replace(ExpectedVerifyUrl(EmailX))
  /\ navs # <<>>
  /\ navs[Len(navs)] = Nav(lastEval.inst, "replace", ExpectedVerifyUrl(EmailX), TRUE)

\* C13 (no redirect loops): with the session held fixed, the destination of
\* every redirect the guard issues is a location on which the guard decides
\* NoAction for that same session: the verification page for an unverified
\* user, the login page for an anonymous visitor, the egress destination
\* (one taken from the redirect parameter included) for a verified user.
C13_NoRedirectLoops ==
  /\ (lastEval.ran /\ lastEval.action.kind = "replace")
       => Decide(lastEval.user, PathOf(lastEval.action.url),
                 SearchOf(lastEval.action.url)) = NoAction
  /\ lastFire.ran
       => Decide(lastFire.timer.user, PathOf(lastFire.dest),
                 SearchOf(lastFire.dest)) = NoAction

\* C14 (latch lifecycle): hasRedirected is false on a fresh mount, becomes true
\* only in an effect run that decides a redirect, and is never reset while the
\* instance lives, whatever changes of user, loading, pathname or isRedirecting
\* re-run the effect; only a fresh mount gives an unset latch again.
C14_LatchLifecycle ==
  /\ (mounted = TRUE /\ hasRedirected = FALSE)
  /\ [][/\ (~mounted /\ mounted') => ~hasRedirected'
        /\ (mounted /\ mounted' /\ inst' = inst /\ hasRedirected) => hasRedirected'
        /\ (mounted /\ mounted' /\ inst' = inst /\ ~hasRedirected /\ hasRedirected')
             => Len(navs') + Len(timers') = Len(navs) + Len(timers) + 1]_vars

\* the latch is set, the session or the pathname has changed since, the effect
\* has run again and the latch is still set
C14_Witness ==
  /\ mounted
  /\ hasRedirected
  /\ envSteps > 0
  /\ lastEval.ran
  /\ lastEval.inst = inst
  /\ lastEval.latched
  /\ ~lastEval.loading
  /\ lastEval.action = NoAction

\* C15 (latch precedes navigation): in every reachable state in which the
\* mounted instance has issued a navigation or has a delayed navigation
\* pending, that instance's hasRedirected is true.
C15_LatchPrecedesNavigation == (mounted /\ Issued(inst) > 0) => hasRedirected

\* the delayed egress of the mounted instance is pending and its latch is set
C15_Witness ==
  /\ mounted
  /\ hasRedirected
  /\ NavCount(inst) = 0
  /\ \E k \in DOMAIN timers : timers[k].inst = inst

\* C19 (no retry after a Navigator failure): when the navigation call of a
\* guard instance has thrown, that call stays the only navigation the instance
\* ever issues or schedules: its latch stays set while it is mounted, and a
\* later effect run of the instance decides nothing.
C19_NoRetryAfterFailure ==
  \A k \in DOMAIN navs :
    navs[k].threw =>
      /\ Issued(navs[k].inst) = 1
      /\ (mounted /\ inst = navs[k].inst) => hasRedirected
      /\ (lastEval.ran /\ lastEval.inst = navs[k].inst) => lastEval.action = NoAction

\* router.replace to the login page threw for an anonymous visitor on the
\* dashboard; the effect has run again on the same inputs and done nothing
C19_Witness ==
  /\ mounted
  /\ lastEval.ran
  /\ lastEval.inst = inst
  /\ ~lastEval.loading
  /\ ~lastEval.user.present
  /\ lastEval.pathname = DashboardPath
  /\ lastEval.action = NoAction
  /\ navs = <<ThrownNav(inst, LoginWithDashboardRedirect)>>

\* C17 (ignored self-redirect parameter): the egress decided for a verified
\* user on an auth page whose redirect parameter is absent, empty or equal to
\* the current path does not use the parameter: it navigates to the admin
\* landing path for an admin, and otherwise to the default landing path (the
\* configured one, / when none is configured).
C17_IgnoredSelfRedirect ==
  ( /\ FiredEgress
    /\ \/ RedirectParamOf(lastFire.timer) = Null
       \/ RedirectParamOf(lastFire.timer) = Some(<<>>)
       \/ RedirectParamOf(lastFire.timer) = Some(lastFire.timer.pathname) )
  => lastFire.dest =
       (IF lastFire.timer.user.role = "admin" THEN AdminLandingPath
        ELSE IF Truthy(postAuthEnv) THEN postAuthEnv[1]
        ELSE RootPath)

\* the effect run saw a verified user off every auth page
VerifiedOffAuthPages ==
  /\ lastEval.user.present
  /\ lastEval.user.isVerified
  /\ ~StartsWith(lastEval.pathname, LoginPath)
  /\ ~StartsWith(lastEval.pathname, RegisterPath)
  /\ ~StartsWith(lastEval.pathname, ForgotPasswordPath)
  /\ ~StartsWith(lastEval.pathname, ResetPasswordPath)

\* the effect run saw an anonymous visitor off the protected prefix
AnonymousOffProtected ==
  /\ ~lastEval.user.present
  /\ ~StartsWith(lastEval.pathname, DashboardPath)

\* C18 (otherwise NoAction): an effect run with loading false in which no rule
\* matches (a verified user not on an auth page, or an anonymous visitor not on
\* a protected prefix) issues and schedules no navigation and leaves
\* hasRedirected and isRedirecting as they were.
C18_OtherwiseNoAction ==
  (/\ lastEval.ran
   /\ ~lastEval.loading
   /\ VerifiedOffAuthPages \/ AnonymousOffProtected)
  => /\ lastEval.action = NoAction
     /\ lastEval.latchedAfter = lastEval.latched
     /\ lastEval.redirectingAfter = lastEval.redirecting
     /\ hasRedirected = lastEval.latched
     /\ isRedirecting = lastEval.redirecting
     /\ Issued(lastEval.inst) = lastEval.issuedBefore

\* an anonymous visitor on / with the latch unset: the effect has run and
\* nothing was issued
C18_Witness ==
  /\ lastEval.ran
  /\ ~lastEval.loading
  /\ ~lastEval.latched
  /\ ~lastEval.redirecting
  /\ ~lastEval.user.present
  /\ lastEval.pathname = RootPath
  /\ ~hasRedirected
  /\ navs = <<>>
  /\ timers = <<>>

\* the effect run that has just finished had the latch unset and loading
\* false, and one of the three rules matches its session and path
RuleMatched ==
  /\ lastEval.ran
  /\ ~lastEval.loading
  /\ ~lastEval.latched
  /\ ~lastEval.redirecting
  /\ \/ /\ lastEval.user.present
        /\ ~lastEval.user.isVerified
        /\ ~StartsWith(lastEval.pathname, VerifyPrefix)
     \/ /\ lastEval.user.present
        /\ lastEval.user.isVerified
        /\ \/ StartsWith(lastEval.pathname, LoginPath)
           \/ StartsWith(lastEval.pathname, RegisterPath)
           \/ StartsWith(lastEval.pathname, ForgotPasswordPath)
           \/ StartsWith(lastEval.pathname, ResetPasswordPath)
     \/ /\ ~lastEval.user.present
        /\ StartsWith(lastEval.pathname, DashboardPath)

\* the mounted instance has a delayed egress pending
EgressPending == mounted /\ \E k \in DOMAIN timers : timers[k].inst = inst

\* C16 (exactly-once redirect, liveness): when a mounted guard with an unset
\* latch evaluates with loading false and a rule matches, exactly one
\* navigation is issued or scheduled for it: a replace is handed to the router
\* in that run; a delayed egress, as long as the guard stays mounted,
\* eventually fires, and the firing performs one navigation to the destination
\* decided for the captured values.
C16_ExactlyOnceRedirect ==
  /\ [](RuleMatched =>
          /\ lastEval.action.kind # "none"
          /\ Issued(lastEval.inst) = 1
          /\ lastEval.action.kind = "replace" =>
               /\ navs[Len(navs)] =
                    Nav(lastEval.inst, "replace", lastEval.action.url, TRUE)
               /\ pendingNav = Some(lastEval.action.url))
  /\ [](lastFire.ran =>
          /\ navs[Len(navs)].inst = lastFire.timer.inst
          /\ navs[Len(navs)].url = lastFire.dest
          /\ NavCount(lastFire.timer.inst) = 1
          /\ timers = <<>>)
  /\ EgressPending ~> (lastFire.ran \/ ~mounted)

\* the delayed egress of an instance that stayed mounted has fired: its one
\* navigation is on record
C16_Witness ==
  /\ lastFire.ran
  /\ navs[Len(navs)] = Nav(lastFire.timer.inst, "href", lastFire.dest, TRUE)
  /\ NavCount(lastFire.timer.inst) = 1

\* the effect run that has just finished was not blocked
UnblockedRun ==
  /\ lastEval.ran
  /\ ~lastEval.loading
  /\ ~lastEval.latched
  /\ ~lastEval.redirecting

\* C21 (prefix-based, case-sensitive matching): a path counts as protected,
\* auth-entry or verification-exempt exactly when it starts with a configured
\* prefix, compared case-sensitively. Of the path inputs, an anonymous visitor
\* is sent to login on /dashboard, /dashboard/admin and /dashboardX and on no
\* other (not on /Dashboard); a verified user gets the egress on the four auth
\* pages and /auth/login/extra and on no other (not on /Auth/login); an
\* unverified user is left alone on /auth/verify-email and
\* /auth/verify-success and on no other (not on /auth/Verify).
C21_PrefixCaseSensitiveMatching ==
  (UnblockedRun /\ lastEval.pathname \in PathInputs) =>
    /\ ~lastEval.user.present =>
         (lastEval.action.kind = "replace" <=>
            lastEval.pathname \in {DashboardPath, AdminLandingPath, DashboardXPath})
    /\ (lastEval.user.present /\ lastEval.user.isVerified) =>
         (lastEval.action.kind = "timeout" <=>
            lastEval.pathname \in {LoginPath, LoginExtraPath, RegisterPath,
                                   ForgotPasswordPath, ResetPasswordPath})
    /\ (lastEval.user.present /\ ~lastEval.user.isVerified) =>
         (lastEval.action.kind = "none" <=>
            lastEval.pathname \in {VerifyEmailPath, VerifySuccessPath})

\* an anonymous visitor on /dashboardX has been sent to the login page
C21_Witness ==
  /\ UnblockedRun
  /\ ~lastEval.user.present
  /\ lastEval.pathname = DashboardXPath
  /\ lastEval.action.kind = "replace"
  /\ pendingNav # Null
  /\ PathOf(pendingNav[1]) = LoginPath

C23_AdminAccessControl ==
  /\ \A c \in calls : c.asAdmin
  /\ (AdminPageRendered /\ "access" \notin effectsDue /\ ~loading /\ ~IsAdmin(user))
       => /\ pageNavs # <<>>
          /\ pageNavs[Len(pageNavs)] = PageNav("replace", RootPath)
          /\ pendingNav = Some(RootPath)


\* a fetchProducts call is in flight
FetchProductsInFlight == \E c \in calls : c.fn = "fetchProducts"

\* C29 (latest fetch wins): when several fetchProducts calls have been in
\* flight and all their responses have arrived, in whatever order, products
\* and pagination hold the result of the call issued last; and loading is not
\* false while a fetchProducts call is in flight.
C29_LatestFetchWins ==
  AdminPageRendered =>
    /\ (latestFetch.id # 0 /\ ~FetchProductsInFlight)
         => /\ latestFetch.done
            /\ products = latestFetch.products
            /\ pagination = latestFetch.pagination
    /\ FetchProductsInFlight => dataLoading


\* fetchFlavors has just got the response lastDone.outcome to its request
\* lastDone.call.pc
FlavorsAnswered(pc, outcomes) ==
  /\ lastDone.ran
  /\ lastDone.call.fn = "fetchFlavors"
  /\ lastDone.call.pc = pc
  /\ lastDone.outcome \in outcomes

\* the request to the legacy endpoint that call c has made and waits on
LegacyRequested(c) == \E d \in calls : d.id = c.id /\ d.pc = "legacy"

\* C25 (fetchFlavors failure protocol): a primary failure with 401 and code
\* NO_TOKEN sets the error message (the response's, or the default), sets the
\* timer of a navigation to /auth/login, makes no request to the legacy
\* endpoint and leaves flavors as they were; any other primary failure makes
\* the request to the legacy endpoint; and when that fails too, flavors is
\* empty and an error message is set.
C25_FetchFlavorsFailureProtocol ==
  /\ FlavorsAnswered("primary", {"401 NO_TOKEN message", "401 NO_TOKEN"})
       => /\ error = Some(IF lastDone.outcome = "401 NO_TOKEN"
                          THEN AuthRequiredMessage ELSE ServerMessage)
          /\ Len(pageTimers) = lastDone.timers + 1
          /\ pageTimers[Len(pageTimers)] = PageNav("href", LoginPath)
          /\ ~LegacyRequested(lastDone.call)
          /\ \A d \in calls : d.id # lastDone.call.id
          /\ flavors = lastDone.flavors
  /\ FlavorsAnswered("primary", {"401", "404", "error"})
       => /\ LegacyRequested(lastDone.call)
          /\ Len(pageTimers) = lastDone.timers
  /\ FlavorsAnswered("legacy", {"error message", "error"})
       => /\ flavors = {}
          /\ error = Some(IF lastDone.outcome = "error"
                          THEN FlavorsFailedMessage ELSE ServerMessage)

\* fetchFlavors, with flavors loaded earlier, has got 401 NO_TOKEN
C25_Witness ==
  /\ FlavorsAnswered("primary", {"401 NO_TOKEN"})
  /\ lastDone.flavors # {}
  /\ flavors = lastDone.flavors
  /\ pageTimers # <<>>

\* fetchFlavors has got a failure from the legacy endpoint, after a primary one
C25_LegacyWitness ==
  /\ FlavorsAnswered("legacy", {"error"})
  /\ lastDone.flavors # {}
  /\ flavors = {}


\* the call fn has just got the response lastDone.outcome to its request pc
Answered(fn, pc, outcomes) ==
  /\ lastDone.ran
  /\ lastDone.call.fn = fn
  /\ lastDone.call.pc = pc
  /\ lastDone.outcome \in outcomes

\* C24 (optimistic update reverted on failure): when updateProductByRow ends
\* in failure (the primary PUT failed with something other than 404, or the
\* primary answered 404 and the legacy PUT failed), products is again the list
\* from before the optimistic update, the error message is set and saving is
\* false.
C24_OptimisticUpdateReverted ==
  (\/ Answered("updateProductByRow", "primary", {"error"})
   \/ Answered("updateProductByRow", "legacy", {"error"}))
    => /\ products = lastDone.call.prev
       /\ error = Some(UpdateFailedMessage)
       /\ saving = FALSE

\* the products whose id is not id
Others(list, id) == {p \in list : p.id # id}

\* deleteProduct has just got the response lastDone.outcome
DeleteAnswered(outcomes) ==
  /\ lastDone.ran
  /\ lastDone.call.fn = "deleteProduct"
  /\ lastDone.outcome \in outcomes

\* the ids of the DELETE requests in flight
DeletesInFlight == {c.arg : c \in {d \in calls : d.fn = "deleteProduct"}}

\* C30 (deleteProduct removes only on success): deleteProduct leaves products
\* as they are when it starts and when the primary route answers 404; the
\* step in which its DELETE request (primary, or legacy after 404) has
\* succeeded takes its row out and no other; a failed DELETE leaves products
\* as they were and sets the error message; deleting[id] is true exactly
\* while a DELETE for id is in flight.
C30_DeleteOnlyOnSuccess ==
  [][ /\ deleting' = DeletesInFlight'
      /\ DeletesInFlight' \ DeletesInFlight # {} => products' = products
      /\ DeleteAnswered({"ok"})'
           => products' = Others(products, lastDone'.call.arg)
      /\ DeleteAnswered({"error"})'
           => /\ products' = products
              /\ error' = Some(DeleteFailedMessage)
      /\ Answered("deleteProduct", "primary", {"404"})'
           => /\ products' = products
              /\ lastDone'.call.arg \in deleting'
    ]_vars

\* a DELETE has succeeded on the legacy route while another failed before
C30_Witness ==
  /\ Answered("deleteProduct", "legacy", {"ok"})
  /\ lastDone.products # products
  /\ lastDone.call.arg \notin deleting
  /\ deleting # {}


\* the effect of the orders page runs in this step
OrdersEffectRuns ==
  /\ OrdersPageRendered
  /\ "orders" \in effectsDue
  /\ "orders" \notin effectsDue'
  /\ pathname' = pathname

\* C26 (orders page does not auto-redirect): the effect of the orders page
\* issues no navigation, whoever the user is; a navigation is issued only
\* while the login prompt is shown (loading false, user absent), by a click,
\* and is router.push to /auth/login or to /shop; every fetchOrders call was
\* made with a user present; and a step that changes status leaves page at 1.
C26_OrdersNoAutoRedirect ==
  [][ /\ OrdersEffectRuns => (pageNavs' = pageNavs /\ pendingNav' = pendingNav)
      /\ pageNavs' # pageNavs
           => /\ LoginPromptShown
              /\ \E url \in {LoginPath, ShopPath} :
                   /\ pageNavs' = Append(pageNavs, PageNav("push", url))
                   /\ pendingNav' = Some(url)
      /\ \A i \in 1..Len(ordersFetches') : ordersFetches'[i].present
      /\ (ordersFetches' # ordersFetches) => user.present
      /\ (status' # status) => page' = 1
    ]_vars

\* a user who had fetched orders has become anonymous: the effect has run, the
\* login prompt is shown, no navigation and no further fetch was made
C26_Witness ==
  /\ OrdersPageRendered
  /\ LoginPromptShown
  /\ "orders" \notin effectsDue
  /\ envSteps > 0
  /\ Len(ordersFetches) = 1
  /\ pageNavs = <<>>
  /\ pendingNav = Null


\* C28 (delayed egress uses decision-time state): a timer captures the user,
\* the pathname and the redirect parameter of the state its redirect was
\* decided in; and the oldest pending timer, whatever user, loading and
\* pathname become meanwhile, stays pending until the step that assigns
\* window.location.href the destination computed from what it captured.
C28_DecisionTimeState ==
  [][ /\ Len(timers') = Len(timers) + 1
           => LET t == timers'[Len(timers')]
              IN /\ t.user = user
                 /\ t.pathname = pathname
                 /\ t.redirectTo = SearchParamGet(search, RedirectKey)
      /\ timers # <<>>
           => \/ (timers' # <<>> /\ Head(timers') = Head(timers))
              \/ /\ Len(navs') = Len(navs) + 1
                 /\ navs'[Len(navs')].kind = "href"
                 /\ navs'[Len(navs')].url =
                      EgressDestination(Head(timers).redirectTo,
                                        Head(timers).pathname,
                                        Head(timers).user.role)
    ]_vars

\* the timer of an admin's egress from the login page has fired after the
\* session was lost: the destination is the admin landing page all the same
C28_Witness ==
  /\ lastFire.ran
  /\ lastFire.timer.user.role = "admin"
  /\ lastFire.timer.pathname = LoginPath
  /\ lastFire.timer.redirectTo = Null
  /\ user = Absent
  /\ lastFire.dest = AdminLandingPath
  /\ navs[Len(navs)].url = AdminLandingPath


\* the guard has called router.replace with the login URL for /dashboard/admin
GuardSentToLogin ==
  \E k \in DOMAIN navs :
    navs[k].kind = "replace" /\ navs[k].url = ExpectedLoginUrl(AdminLandingPath)

\* the access effect of the admin page has called router.replace("/")
AccessSentHome ==
  \E k \in DOMAIN pageNavs : pageNavs[k] = PageNav("replace", RootPath)

\* C27 (two guards on the admin route agree): an anonymous user (loading
\* false) has opened /dashboard/admin, the guard's effect and the access
\* effect of the admin page have both run, in either order, and the router
\* has processed their navigations: the user is on the login page with
\* redirect=/dashboard/admin.
C27_TwoGuardsAgree ==
  ( /\ envSteps = 0
    /\ ~loading
    /\ ~user.present
    /\ GuardSentToLogin
    /\ AccessSentHome
    /\ pendingNav = Null )
  => /\ pathname = LoginPath
     /\ SearchParamGet(search, RedirectKey) = Some(AdminLandingPath)















====
